---- MODULE Spec2Model ----
(***************************************************************************)
(* Model of anaplan-api-js-wrapper.                                         *)
(*                                                                          *)
(* Spec, LiveSpec: the pagination aggregator (src/helpers/                  *)
(* paginationHandler.js, the second, effective declaration of               *)
(* paginationHandler) together with the repository call it drives           *)
(* (AnaplanModels.retrieveModelsForWorkspace and handleError).  One call is *)
(* followed from the moment it is made until the body of its async executor *)
(* has returned or thrown.  The server is the environment: every reply to a *)
(* page request is chosen freely among a small set of page envelopes (well  *)
(* formed or not) and transport errors.                                     *)
(*                                                                          *)
(* TotalSpec: one such call against a server whose pages differ in length   *)
(* and in the totalSize they report.                                        *)
(*                                                                          *)
(* ConcSpec: two such calls made side by side.                              *)
(*                                                                          *)
(* AuthSpec: the methods of the auth repository (AnaplanAuth).              *)
(*                                                                          *)
(* ClientSpec: an AnaplanClient and the workspaces it hands out, used by a  *)
(* program that awaits each operation, while time passes.                   *)
(***************************************************************************)
EXTENDS Integers, Sequences, FiniteSets, TLC

\* ------------------------------------------------------------------ bounds

\* Largest number of page requests one call may issue in the model: a reply
\* that would make the loop issue request MaxFetch + 1 is not offered.
MaxFetch == 4

\* Largest number of items in one payload array.
MaxLen == 2

\* Largest number of page requests of each of two calls made side by side.
MaxConcFetch == 2

\* Latest reading of the clock (Date.now()) in the model.
MaxNow == 2

\* ------------------------------------------------------------ input domains

\* pageSize values a caller passes: up to the largest page the server sends.
PageSizes == 1..MaxLen

\* maxPages values a caller passes: the default -1, 0, other negatives, k > 0.
MaxPagesValues == {-2, -1, 0, 1, 2}

\* meta.paging.totalSize values the server reports.
TotalSizes == {0, 5}

\* Names the payload field has on the endpoints of the API.
PayloadKeys == {"models", "items"}

\* meta.paging.currentPageSize values the server reports beside the payload
\* length itself (a size that disagrees with the payload, a negative size).
OddPageSizes == {-1, 0, 1}

\* Caller params: the ones Workspace.getAllModels passes, alone or together
\* with limit/offset keys of the caller's own.
ParamsValues ==
    { [workspaceId |-> 8, modelDetails |-> 0],
      [workspaceId |-> 8, modelDetails |-> 0, limit |-> 77, offset |-> 99] }

\* Errors axios can reject with, one for each branch of handleError.
Errors ==
    { [name |-> "Http500",      hasResponse |-> TRUE,  hasRequest |-> TRUE],
      [name |-> "NoReply",      hasResponse |-> FALSE, hasRequest |-> TRUE],
      [name |-> "SetupFailure", hasResponse |-> FALSE, hasRequest |-> FALSE] }

\* The error the JavaScript runtime raises on a property read of undefined.
TypeError == [name |-> "TypeError", hasResponse |-> FALSE, hasRequest |-> FALSE]

\* The fault the specification names for a malformed page; no code raises it.
ProtocolError == [name |-> "ProtocolError", hasResponse |-> FALSE, hasRequest |-> FALSE]

NoError == [name |-> "none", hasResponse |-> FALSE, hasRequest |-> FALSE]

\* Token values the auth service issues.
TokenValues == {"T1", "T2"}

\* Margin verifyConnection keeps before a token's expiry (Date.now() + 10).
ExpiryMargin == 10

\* Tokens a caller hands to the auth repository: an issued one, or the
\* undefined token of a client that never connected.
AuthTokenArgs == TokenValues \cup {"undefined"}

\* expiresAt values the auth service reports.
ExpiresAtValues == {ExpiryMargin, ExpiryMargin + 1}

\* --------------------------------------------------------------- envelopes

\* A top-level field of a response body, in Object.values order.
ArrayField(key, items) == [key |-> key, isArray |-> TRUE, items |-> items]
OtherField(key) == [key |-> key, isArray |-> FALSE, items |-> <<>>]

\* n + 1, ..., n + len: the server never serves the same item twice.
Item(i) == [id |-> i, defined |-> TRUE]
Items(n, len) == [i \in 1..len |-> Item(n + i)]

\* The JavaScript value undefined, where an item is expected.
Undefined == [id |-> 0, defined |-> FALSE]

NoPaging == [present |-> FALSE, currentPageSize |-> 0, totalSize |-> 0]
Paging(cps, ts) == [present |-> TRUE, currentPageSize |-> cps, totalSize |-> ts]

\* {meta: {paging: {currentPageSize, totalSize}}, status: ..., <key>: [...]}
PageEnvelope(paging, key, items) ==
    [paging |-> paging,
     fields |-> <<OtherField("meta"), OtherField("status"), ArrayField(key, items)>>]

\* The page envelopes the server may answer with once it has served n items:
\* every payload length, and for one length another totalSize and another key.
WellFormedEnvelopes(n) ==
    { PageEnvelope(Paging(len, 5), "models", Items(n, len)) : len \in 0..MaxLen }
    \cup { PageEnvelope(Paging(1, ts), "models", Items(n, 1)) : ts \in TotalSizes }
    \cup { PageEnvelope(Paging(1, 5), key, Items(n, 1)) : key \in PayloadKeys }

\* currentPageSize disagrees with the payload length.
MismatchedEnvelopes(n) ==
    { PageEnvelope(Paging(c[2], 5), "models", Items(n, c[1])) :
        c \in { d \in (0..1) \X OddPageSizes : d[1] # d[2] } }

\* meta.paging is missing.
NoPagingEnvelopes(n) ==
    { PageEnvelope(NoPaging, "models", Items(n, len)) : len \in 0..1 }

\* meta.paging is there, no top-level field is an array.
NoArrayEnvelopes ==
    { [paging |-> Paging(cps, 5),
       fields |-> <<OtherField("meta"), OtherField("status")>>] : cps \in 0..1 }

\* Two top-level arrays.
TwoArrayEnvelopes(n) ==
    { [paging |-> Paging(1, 5),
       fields |-> <<OtherField("meta"), ArrayField("models", Items(n, 1)),
                    ArrayField("others", Items(n + 1, 1))>>] }

Envelopes(n) ==
    WellFormedEnvelopes(n) \cup MismatchedEnvelopes(n) \cup NoPagingEnvelopes(n)
        \cup NoArrayEnvelopes \cup TwoArrayEnvelopes(n)

NoEnvelope == [paging |-> NoPaging, fields |-> <<>>]

\* What the HTTP client hands back to the repository method.
HttpOk(env) == [ok |-> TRUE, data |-> env, error |-> NoError]
HttpFail(err) == [ok |-> FALSE, data |-> NoEnvelope, error |-> err]

\* A body of the auth service: {status, statusMessage, tokenInfo: {tokenValue,
\* expiresAt, ...}}, with or without tokenInfo.
AuthBody(status, hasTokenInfo, tokenValue, expiresAt) ==
    [defined |-> TRUE, status |-> status, hasTokenInfo |-> hasTokenInfo,
     tokenValue |-> tokenValue, expiresAt |-> expiresAt]

\* The JavaScript value undefined, where a body is expected.
UndefinedBody ==
    [defined |-> FALSE, status |-> "undefined", hasTokenInfo |-> FALSE,
     tokenValue |-> "undefined", expiresAt |-> 0]

AuthBodies ==
    { AuthBody("SUCCESS", TRUE, t, e) : t \in TokenValues, e \in ExpiresAtValues }
    \cup { AuthBody(st, FALSE, "undefined", 0) : st \in {"SUCCESS", "FAILURE_BAD_CREDENTIAL", "FAILURE_TOKEN_EXPIRED"} }

\* What axios hands back to a method of AnaplanAuth.
AuthOk(body) == [ok |-> TRUE, body |-> body, error |-> NoError]
AuthFail(err) == [ok |-> FALSE, body |-> UndefinedBody, error |-> err]
AuthReplies == { AuthOk(b) : b \in AuthBodies } \cup { AuthFail(e) : e \in Errors }

\* ------------------------------------------------------------------- state

VARIABLES
    pc,           \* where the async executor of the call is
    params,       \* argument params of the call
    pageSize,     \* argument pageSize
    maxPages,     \* argument maxPages
    offset,       \* let offset
    data,         \* let data
    currentPage,  \* let currentPage
    totalSize,    \* let totalSize
    totalPages,   \* let totalPages
    currentSize,  \* let currentSize
    promise,      \* the promise paginationHandler returned to its caller
    unhandled,    \* what the executor's own (dropped) promise rejected with
    requests,     \* the argument of every repository call made, in order
    replies       \* what the HTTP client answered to each of them, in order

vars == <<pc, params, pageSize, maxPages, offset, data, currentPage, totalSize,
          totalPages, currentSize, promise, unhandled, requests, replies>>

args == <<params, pageSize, maxPages>>
locals == <<offset, data, currentPage, totalSize, totalPages, currentSize>>

\* Two calls of paginationHandler made side by side by one program.
VARIABLES
    calls,        \* per call: arguments, returned promise, requests, replies
    frames        \* per executor activation: its let variables

concVars == <<calls, frames>>

\* A method of the auth repository called on its own.
VARIABLES
    authCall      \* the last call: method, token passed, reply, outcome

authVars == <<authCall>>

\* An AnaplanClient and the program that uses it, one operation at a time.
VARIABLES
    token,        \* this.token
    fullToken,    \* this.fullToken
    repositories, \* this._repositories
    now,          \* Date.now()
    life,         \* whether a connect or a logout last completed, if any
    op            \* the operation called last: arguments, progress, outcome

client == <<token, fullToken, repositories>>
clientVars == <<token, fullToken, repositories, now, life, op>>

\* What each part of the model leaves alone.
besidePagination == <<concVars, authVars, clientVars>>
besideConc == <<vars, authVars, clientVars>>
besideAuth == <<vars, concVars, clientVars>>
besideClient == <<concVars, authVars>>

CallIds == {1, 2}

\* ------------------------------------------------------- the code, as operators

\* Mutant of handleError: the last branch logs and returns.
handleErrorLogsOnly(error) ==
    [threw |-> error.hasResponse \/ error.hasRequest, value |-> NoEnvelope,
     error |-> error,
     logged |-> IF error.hasResponse THEN "API response error:"
                ELSE IF error.hasRequest THEN "No response received:"
                ELSE "Error:"]

\* errorHandler.js: logs on one of three branches, then throws the error.
handleError(error) ==
    [threw |-> TRUE, value |-> NoEnvelope, error |-> error,
     logged |-> IF error.hasResponse THEN "API response error:"
                ELSE IF error.hasRequest THEN "No response received:"
                ELSE "Error:"]

\* try { return (await this.apiClient.get(...)).data } catch (e) { handleError(e) }
retrieveModelsForWorkspace(reply) ==
    IF reply.ok
    THEN [threw |-> FALSE, value |-> reply.data, error |-> NoError, logged |-> ""]
    ELSE handleError(reply.error)

\* Mutant of RequestParams: the spread comes last, the caller's limit and
\* offset win.
RequestParamsCallerWins(p, limit, off) ==
    [k \in DOMAIN p \cup {"limit", "offset"} |->
        IF k \in DOMAIN p THEN p[k] ELSE IF k = "limit" THEN limit ELSE off]

\* { ...params, limit: pageSize, offset }
RequestParams(p, limit, off) ==
    [k \in DOMAIN p \cup {"limit", "offset"} |->
        IF k = "limit" THEN limit ELSE IF k = "offset" THEN off ELSE p[k]]

\* Math.ceil(a / b) for b > 0
Ceil(a, b) == -((-a) \div b)

\* Mutant of Content: the payload is read from the field named models.
ContentByName(response) ==
    LET named == SelectSeq(response.fields, LAMBDA f : f.isArray /\ f.key = "models")
    IN  IF named = <<>> THEN [defined |-> FALSE, items |-> <<>>]
        ELSE [defined |-> TRUE, items |-> named[1].items]

\* Mutant of Content: the last array of the response is taken.
ContentLastArray(response) ==
    LET arrays == SelectSeq(response.fields, LAMBDA f : f.isArray)
    IN  IF arrays = <<>> THEN [defined |-> FALSE, items |-> <<>>]
        ELSE [defined |-> TRUE, items |-> arrays[Len(arrays)].items]

\* Object.values(response).filter((value) => Array.isArray(value))[0]
Content(response) ==
    LET arrays == SelectSeq(response.fields, LAMBDA f : f.isArray)
    IN  IF arrays = <<>> THEN [defined |-> FALSE, items |-> <<>>]
        ELSE [defined |-> TRUE, items |-> arrays[1].items]

\* Mutant of Concat: the page is put in front of what was accumulated.
ConcatInFront(d, content) ==
    IF content.defined THEN content.items \o d ELSE Append(d, Undefined)

\* data.concat(content): an array is spread, anything else is appended as is.
Concat(d, content) ==
    IF content.defined THEN d \o content.items ELSE Append(d, Undefined)

\* Mutant of NextOffset: the offset counts pages, not items.
NextOffsetByPage(off, size) == off + 1

\* offset += currentSize
NextOffset(off, size) == off + size

\* Mutants of LoopCondition.
\* An empty page does not stop the loop.
LoopConditionNoEmptyStop(size, max, page) == size >= 0 /\ (max = -1 \/ page < max)
\* Off by one on the page limit.
LoopConditionOneMore(size, max, page) == size > 0 /\ (max = -1 \/ page <= max)
\* Every negative maxPages means no limit.
LoopConditionAnyNegative(size, max, page) == size > 0 /\ (max < 0 \/ page < max)
\* The loop goes on for any size but 0.
LoopConditionNonZero(size, max, page) == size # 0 /\ (max = -1 \/ page < max)

\* -1 is a page limit like any other.
LoopConditionNoSentinel(size, max, page) == size > 0 /\ page < max

\* while (currentSize > 0 && (maxPages === -1 || currentPage < maxPages))
LoopCondition(size, max, page) == size > 0 /\ (max = -1 \/ page < max)

\* Mutant of PageSize: the size is cut to what totalSize leaves.
PageSizeWithinTotal(response) ==
    IF response.paging.currentPageSize > response.paging.totalSize
    THEN response.paging.totalSize
    ELSE response.paging.currentPageSize

\* currentSize = response.meta.paging.currentPageSize
PageSize(response) == response.paging.currentPageSize

\* Whether reading response.meta.paging.<field> throws.
PagingMissing(response) == ~response.paging.present

\* Items the server has put in payload arrays so far.
RECURSIVE Served(_)
Served(rs) ==
    IF rs = <<>> THEN 0
    ELSE LET last == rs[Len(rs)]
             arrays == SelectSeq(last.data.fields, LAMBDA f : f.isArray)
             RECURSIVE Count(_)
             Count(fs) == IF fs = <<>> THEN 0 ELSE Len(Head(fs).items) + Count(Tail(fs))
         IN  Served(SubSeq(rs, 1, Len(rs) - 1)) + Count(arrays)

\* ----------------------------------------------------------------- actions

\* No call made yet.
NoCall ==
    [pc |-> "idle", params |-> [workspaceId |-> 8, modelDetails |-> 0],
     pageSize |-> 1, maxPages |-> -1,
     promise |-> [state |-> "none", value |-> <<>>, reason |-> NoError],
     unhandled |-> NoError, requests |-> <<>>, replies |-> <<>>]

NoFrame ==
    [offset |-> 0, data |-> <<>>, currentPage |-> 0,
     totalSize |-> 0, totalPages |-> 0, currentSize |-> 0]

ConcInit ==
    /\ calls = [c \in CallIds |-> NoCall]
    /\ frames = [f \in CallIds |-> NoFrame]

\* A new Error(message) thrown by the auth repository or by the client.
Failed(message, cause) == [message |-> message, cause |-> cause]
NoFailure == Failed("", "")

\* What an async method came to: a value returned or an error thrown.
Returns(body) == [threw |-> FALSE, value |-> body, error |-> NoFailure]
Throws(failure) == [threw |-> TRUE, value |-> UndefinedBody, error |-> failure]

\* Mutant of createAuthToken: only the status of the body is handed back.
createAuthTokenStatusOnly(reply) ==
    IF reply.ok THEN Returns(AuthBody(reply.body.status, FALSE, "undefined", 0))
    ELSE Throws(Failed("Failed to create auth token", reply.error.name))

\* AnaplanAuth.createAuthToken: return response.data, or throw a new Error.
createAuthToken(reply) ==
    IF reply.ok THEN Returns(reply.body)
    ELSE Throws(Failed("Failed to create auth token", reply.error.name))

createAuthTokenWithCertificate(reply) ==
    IF reply.ok THEN Returns(reply.body)
    ELSE Throws(Failed("Failed to create auth token with certificate", reply.error.name))

getAuthTokenDetails(reply) ==
    IF reply.ok THEN Returns(reply.body)
    ELSE Throws(Failed("Failed to get auth token details", reply.error.name))

refreshAuthToken(reply) ==
    IF reply.ok THEN Returns(reply.body)
    ELSE Throws(Failed("Failed to refresh auth token", reply.error.name))

\* AnaplanAuth.logout: awaits the request and returns nothing.
AnaplanAuth_logout(reply) ==
    IF reply.ok THEN Returns(UndefinedBody)
    ELSE Throws(Failed("Failed to logout", reply.error.name))

AuthInit ==
    authCall = [method |-> "none", authToken |-> "undefined",
                reply |-> AuthFail(NoError), outcome |-> Returns(UndefinedBody)]

\* !value, for a token.
Truthy(t) == t \notin {"undefined", "null", ""}

\* this.fullToken: undefined, null, or the tokenInfo object of a reply.
UndefinedToken == [kind |-> "undefined", tokenValue |-> "undefined", expiresAt |-> 0]
NullToken == [kind |-> "null", tokenValue |-> "undefined", expiresAt |-> 0]

\* authToken.tokenInfo
TokenInfo(body) ==
    IF body.hasTokenInfo
    THEN [kind |-> "object", tokenValue |-> body.tokenValue, expiresAt |-> body.expiresAt]
    ELSE UndefinedToken

\* Mutant of PreparedRepositories: repositories already built are kept.
PreparedRepositoriesOnce(t) ==
    IF repositories.full THEN repositories ELSE [full |-> TRUE, authToken |-> t]

\* this._repositories: [] or the fifteen repositories _prepareRepositories
\* builds, all with the token of that moment.
NoRepositories == [full |-> FALSE, authToken |-> "undefined"]
PreparedRepositories(t) == [full |-> TRUE, authToken |-> t]

NotConnected == "Not connected. Please connect first."
TokenExpired == "Token expired. Please reconnect."
PleaseProvide == "Please provide a workspaceId or workspaceName."
EitherModel == "Either modelName or modelId must be provided."
ModelNotFound == "Model not found."

\* Mutant of verifyConnection: the expiry is checked without the margin.
verifyConnectionNoMargin(tok, full, t) ==
    IF ~Truthy(tok) THEN NotConnected
    ELSE IF full.kind # "object" THEN "TypeError"
    ELSE IF full.expiresAt < t THEN TokenExpired
    ELSE ""

\* AnaplanClient.verifyConnection: the message of the error it throws, "" when
\* it returns.
verifyConnection(tok, full, t) ==
    IF ~Truthy(tok) THEN NotConnected
    ELSE IF full.kind # "object" THEN "TypeError"
    ELSE IF full.expiresAt < t + ExpiryMargin THEN TokenExpired
    ELSE ""

\* A workspace or a model as the API describes it, and undefined.
Entity(id, name) == [defined |-> TRUE, id |-> id, name |-> name]
UndefinedEntity == [defined |-> FALSE, id |-> 0, name |-> ""]

\* array.find(e => e.name === name)
Find(entities, name) ==
    LET hits == SelectSeq(entities, LAMBDA e : e.defined /\ e.name = name)
    IN  IF hits = <<>> THEN UndefinedEntity ELSE hits[1]

\* No operation called.
NoOp ==
    [name |-> "none", id |-> 0, lookup |-> "", withRevoke |-> FALSE,
     pc |-> "done", outcome |-> "none", error |-> NoFailure,
     verified |-> FALSE, sent |-> <<>>, authSent |-> 0, value |-> <<>>,
     workspace |-> 0, received |-> <<>>,
     at |-> [life |-> "new", token |-> "undefined", fullToken |-> UndefinedToken,
             repositories |-> NoRepositories, now |-> 0]]

\* new AnaplanClient(): token and fullToken are not set, _repositories = [].
ClientInit ==
    /\ token = "undefined"
    /\ fullToken = UndefinedToken
    /\ repositories = NoRepositories
    /\ now = 0
    /\ life = "new"
    /\ op = NoOp

Init ==
    /\ pc = "idle"
    /\ params = [workspaceId |-> 8, modelDetails |-> 0]
    /\ pageSize = 1
    /\ maxPages = -1
    /\ offset = 0
    /\ data = <<>>
    /\ currentPage = 0
    /\ totalSize = 0
    /\ totalPages = 0
    /\ currentSize = 0
    /\ promise = [state |-> "none", value |-> <<>>, reason |-> NoError]
    /\ unhandled = NoError
    /\ requests = <<>>
    /\ replies = <<>>
    /\ ConcInit
    /\ AuthInit
    /\ ClientInit

\* Mutant of Call: the second page is requested together with the first.
CallPrefetch ==
    /\ pc = "idle"
    /\ \E p \in ParamsValues, ps \in PageSizes, mp \in MaxPagesValues :
        /\ params' = p
        /\ pageSize' = ps
        /\ maxPages' = mp
        /\ requests' = <<RequestParams(p, ps, 0), RequestParams(p, ps, ps)>>
    /\ offset' = 0
    /\ data' = <<>>
    /\ currentPage' = 0
    /\ totalSize' = 0
    /\ totalPages' = 0
    /\ currentSize' = 0
    /\ promise' = [state |-> "pending", value |-> <<>>, reason |-> NoError]
    /\ pc' = "awaiting"
    /\ UNCHANGED <<unhandled, replies>>

\* paginationHandler({repository, apiCallName, params: p, pageSize: ps,
\* maxPages: mp}): the executor runs synchronously up to its first await.
CallWith(p, ps, mp) ==
    /\ pc = "idle"
    /\ params' = p
    /\ pageSize' = ps
    /\ maxPages' = mp
    /\ requests' = <<RequestParams(p, ps, 0)>>
    /\ offset' = 0
    /\ data' = <<>>
    /\ currentPage' = 0
    /\ totalSize' = 0
    /\ totalPages' = 0
    /\ currentSize' = 0
    /\ promise' = [state |-> "pending", value |-> <<>>, reason |-> NoError]
    /\ pc' = "awaiting"
    /\ UNCHANGED <<unhandled, replies>>

\* A caller calls paginationHandler with arguments of its own.
Call ==
    \E p \in ParamsValues, ps \in PageSizes, mp \in MaxPagesValues : CallWith(p, ps, mp)

\* Mutant of ExecutorThrows: the failed request is sent again.
ExecutorRetries(error) ==
    /\ Len(requests) < MaxFetch
    /\ pc' = "awaiting"
    /\ requests' = Append(requests, requests[Len(requests)])
    /\ UNCHANGED <<args, locals, promise, unhandled>>

\* The executor throws: its own promise rejects, nobody holds it, and neither
\* resolve nor reject of the returned promise is ever called.
ExecutorThrows(error) ==
    /\ pc' = "threw"
    /\ unhandled' = error
    /\ UNCHANGED <<args, locals, promise, requests>>

\* One turn of the do-while body after the await, lines 125-136.
LoopBody(response) ==
    LET ts == IF currentPage = 0 THEN response.paging.totalSize ELSE totalSize
        tp == IF currentPage = 0 THEN Ceil(ts, pageSize) ELSE totalPages
        size == PageSize(response)
        d == Concat(data, Content(response))
        off == NextOffset(offset, size)
        page == currentPage + 1
    IN  /\ totalSize' = ts
        /\ totalPages' = tp
        /\ currentSize' = size
        /\ data' = d
        /\ offset' = off
        /\ currentPage' = page
        /\ IF LoopCondition(size, maxPages, page)
           THEN /\ Len(requests) < MaxFetch
                /\ requests' = Append(requests, RequestParams(params, pageSize, off))
                /\ pc' = "awaiting"
                /\ UNCHANGED promise
           ELSE /\ promise' = [state |-> "fulfilled", value |-> d, reason |-> NoError]
                /\ pc' = "returned"
                /\ UNCHANGED requests
        /\ UNCHANGED <<args, unhandled>>

\* The awaited repository call settles.
Settle(reply) ==
    /\ pc = "awaiting"
    /\ replies' = Append(replies, reply)
    /\ LET out == retrieveModelsForWorkspace(reply)
       IN  IF out.threw THEN ExecutorThrows(out.error)
           ELSE IF PagingMissing(out.value) THEN ExecutorThrows(TypeError)
           ELSE LoopBody(out.value)

\* The server answers the outstanding request with a page envelope.
ReceivePage == \E env \in Envelopes(Served(replies)) : Settle(HttpOk(env))

\* The outstanding request fails.
ReceiveError == \E err \in Errors : Settle(HttpFail(err))

Next ==
    \/ Call /\ UNCHANGED besidePagination
    \/ ReceivePage /\ UNCHANGED besidePagination
    \/ ReceiveError /\ UNCHANGED besidePagination

Spec == Init /\ [][Next]_vars

\* An unbounded call as Workspace.getAllModels makes it: maxPages = -1, its own
\* params, and a page size no page of the server exceeds.
CallUnbounded ==
    /\ Call
    /\ maxPages' = -1
    /\ pageSize' = MaxLen
    /\ params' = [workspaceId |-> 8, modelDetails |-> 0]

NextUnbounded ==
    \/ CallUnbounded /\ UNCHANGED besidePagination
    \/ ReceivePage /\ UNCHANGED besidePagination
    \/ ReceiveError /\ UNCHANGED besidePagination

\* Every request the HTTP client sends is eventually answered or fails.
LiveSpec ==
    Init /\ [][NextUnbounded]_vars /\ WF_vars(ReceivePage \/ ReceiveError)

\* A server that reports any totalSize on any page: the pages are well formed,
\* the call is unbounded or stops after two pages.
TotalEnvelopes(n) ==
    { PageEnvelope(Paging(len, ts), "models", Items(n, len)) :
        len \in 0..MaxLen, ts \in TotalSizes }

CallForTotals ==
    /\ Call
    /\ maxPages' \in {-1, 2}
    /\ params' = [workspaceId |-> 8, modelDetails |-> 0]

ReceiveTotals == \E env \in TotalEnvelopes(Served(replies)) : Settle(HttpOk(env))

ReceiveOneError == Settle(HttpFail(CHOOSE err \in Errors : err.hasResponse))

TotalNext ==
    \/ CallForTotals /\ UNCHANGED besidePagination
    \/ ReceiveTotals /\ UNCHANGED besidePagination
    \/ ReceiveOneError /\ UNCHANGED besidePagination

TotalSpec == Init /\ [][TotalNext]_vars

\* ------------------------------------------- the call as a function of its input

\* The state of one call, as a value.
Current ==
    [pc |-> pc, params |-> params, pageSize |-> pageSize, maxPages |-> maxPages,
     offset |-> offset, data |-> data, currentPage |-> currentPage,
     totalSize |-> totalSize, totalPages |-> totalPages, currentSize |-> currentSize,
     promise |-> promise, unhandled |-> unhandled, requests |-> requests]

\* The call paginationHandler({params: p, pageSize: ps, maxPages: mp}) at its
\* first await (lines 114-124).
Started(p, ps, mp) ==
    [pc |-> "awaiting", params |-> p, pageSize |-> ps, maxPages |-> mp,
     offset |-> 0, data |-> <<>>, currentPage |-> 0,
     totalSize |-> 0, totalPages |-> 0, currentSize |-> 0,
     promise |-> [state |-> "pending", value |-> <<>>, reason |-> NoError],
     unhandled |-> NoError, requests |-> <<RequestParams(p, ps, 0)>>]

\* The call cs once its awaited repository call settled with reply
\* (lines 124-136): the executor throws, asks for the next page or resolves.
AfterReply(cs, reply) ==
    LET out == retrieveModelsForWorkspace(reply)
        response == out.value
        ts == IF cs.currentPage = 0 THEN response.paging.totalSize ELSE cs.totalSize
        tp == IF cs.currentPage = 0 THEN Ceil(ts, cs.pageSize) ELSE cs.totalPages
        size == PageSize(response)
        d == Concat(cs.data, Content(response))
        off == NextOffset(cs.offset, size)
        page == cs.currentPage + 1
        body == [cs EXCEPT !.totalSize = ts, !.totalPages = tp, !.currentSize = size,
                           !.data = d, !.offset = off, !.currentPage = page]
    IN  IF out.threw THEN [cs EXCEPT !.pc = "threw", !.unhandled = out.error]
        ELSE IF PagingMissing(response)
        THEN [cs EXCEPT !.pc = "threw", !.unhandled = TypeError]
        ELSE IF LoopCondition(size, cs.maxPages, page)
        THEN [body EXCEPT !.requests =
                 Append(cs.requests, RequestParams(cs.params, cs.pageSize, off))]
        ELSE [body EXCEPT !.pc = "returned",
                 !.promise = [state |-> "fulfilled", value |-> d, reason |-> NoError]]

\* The call cs fed the replies rs, one per request, for as long as it asks.
RECURSIVE Replay(_, _)
Replay(cs, rs) ==
    IF rs = <<>> \/ cs.pc # "awaiting" THEN cs
    ELSE Replay(AfterReply(cs, Head(rs)), Tail(rs))

\* ------------------------------------------------- two calls side by side

\* Mutant of Frame: the let variables live at module level, one set for all calls.
FrameShared(c) == 1

\* Each call of paginationHandler runs its executor once; offset, data,
\* currentPage, totalSize, totalPages and currentSize are let variables of that
\* activation (lines 116-121).
Frame(c) == c

\* Arguments a caller passes to either of the two calls.
ConcParams ==
    { [workspaceId |-> 8, modelDetails |-> 0], [workspaceId |-> 9, modelDetails |-> 0] }
ConcMaxPages == {-1, 1}

\* The call c as one value: what it was given and returned, and its frame.
CallState(c) ==
    LET k == calls[c]
        f == frames[Frame(c)]
    IN  [pc |-> k.pc, params |-> k.params, pageSize |-> k.pageSize,
         maxPages |-> k.maxPages, offset |-> f.offset, data |-> f.data,
         currentPage |-> f.currentPage, totalSize |-> f.totalSize,
         totalPages |-> f.totalPages, currentSize |-> f.currentSize,
         promise |-> k.promise, unhandled |-> k.unhandled, requests |-> k.requests]

\* Call c becomes cs, having received rs.
Store(c, cs, rs) ==
    /\ calls' = [calls EXCEPT ![c] =
           [pc |-> cs.pc, params |-> cs.params, pageSize |-> cs.pageSize,
            maxPages |-> cs.maxPages, promise |-> cs.promise,
            unhandled |-> cs.unhandled, requests |-> cs.requests, replies |-> rs]]
    /\ frames' = [frames EXCEPT ![Frame(c)] =
           [offset |-> cs.offset, data |-> cs.data, currentPage |-> cs.currentPage,
            totalSize |-> cs.totalSize, totalPages |-> cs.totalPages,
            currentSize |-> cs.currentSize]]

\* paginationHandler(...) is called a first or a second time.
ConcCall(c) ==
    /\ calls[c].pc = "idle"
    /\ \E p \in ConcParams, ps \in PageSizes, mp \in ConcMaxPages :
        Store(c, Started(p, ps, mp), <<>>)
    /\ UNCHANGED besideConc

\* The awaited repository call of call c settles.
ConcSettle(c, reply) ==
    /\ calls[c].pc = "awaiting"
    /\ LET cs == AfterReply(CallState(c), reply)
       IN  /\ cs.pc = "awaiting" => Len(cs.requests) <= MaxConcFetch
           /\ Store(c, cs, Append(calls[c].replies, reply))
    /\ UNCHANGED besideConc

\* The pages served to call c: its own items, whatever the other call is doing.
ConcEnvelopes(c) ==
    { PageEnvelope(Paging(len, 5), "models",
                   Items(10 * c + Served(calls[c].replies), len)) : len \in 0..MaxLen }

ConcReceivePage(c) == \E env \in ConcEnvelopes(c) : ConcSettle(c, HttpOk(env))

ConcReceiveError(c) == ConcSettle(c, HttpFail(CHOOSE err \in Errors : err.hasResponse))

\* The replies reach the two calls in any order.
ConcNext ==
    \E c \in CallIds : ConcCall(c) \/ ConcReceivePage(c) \/ ConcReceiveError(c)

ConcSpec == Init /\ [][ConcNext]_concVars

\* ------------------------------------------------- the auth repository

\* A method of AnaplanAuth is called with a token (or with credentials, which
\* the reply does not depend on) and the auth service answers.
Answered(method, authToken, reply, outcome) ==
    /\ authCall' = [method |-> method, authToken |-> authToken,
                    reply |-> reply, outcome |-> outcome]
    /\ UNCHANGED besideAuth

CallCreateAuthToken ==
    \E reply \in AuthReplies :
        Answered("createAuthToken", "undefined", reply, createAuthToken(reply))

CallCreateAuthTokenWithCertificate ==
    \E reply \in AuthReplies :
        Answered("createAuthTokenWithCertificate", "undefined", reply,
                 createAuthTokenWithCertificate(reply))

CallGetAuthTokenDetails ==
    \E t \in AuthTokenArgs, reply \in AuthReplies :
        Answered("getAuthTokenDetails", t, reply, getAuthTokenDetails(reply))

CallRefreshAuthToken ==
    \E t \in AuthTokenArgs, reply \in AuthReplies :
        Answered("refreshAuthToken", t, reply, refreshAuthToken(reply))

\* The logout endpoint answers 2xx with a body of its own or with none.
CallLogout ==
    \E t \in AuthTokenArgs, reply \in AuthReplies \cup {AuthOk(UndefinedBody)} :
        Answered("logout", t, reply, AnaplanAuth_logout(reply))

AuthNext ==
    \/ CallCreateAuthToken
    \/ CallCreateAuthTokenWithCertificate
    \/ CallGetAuthTokenDetails
    \/ CallRefreshAuthToken
    \/ CallLogout

AuthSpec == Init /\ [][AuthNext]_authVars

\* ------------------------------------------------------------ the client

\* Arguments the program passes: an id or none (0), a name or none ("").
IdArgs == {0, 1}
NameArgs == {"", "A"}

\* What the workspaces endpoints answer with.
WorkspaceLists ==
    { <<>>, <<Entity(1, "B")>>, <<Entity(1, "B"), Entity(2, "A")>> }

\* new Model(client, item): the server names its first model A, the others B.
Model(item) == Entity(item.id, IF item.id = 1 THEN "A" ELSE "B")

\* The pages served to a client: one model or none.
ClientEnvelopes(n) ==
    { PageEnvelope(Paging(len, 5), "models", Items(n, len)) : len \in 0..1 }

\* The program awaits every operation before it calls the next.
Settled == op.outcome # "pending"

\* An operation is called.
NewOp(name, id, lookup, withRevoke) ==
    [NoOp EXCEPT !.name = name, !.id = id, !.lookup = lookup,
                 !.withRevoke = withRevoke, !.pc = "called", !.outcome = "pending",
                 !.at = [life |-> life, token |-> token, fullToken |-> fullToken,
                         repositories |-> repositories, now |-> now]]

Rejects(o, message, cause) ==
    [o EXCEPT !.outcome = "rejected", !.error = Failed(message, cause), !.pc = "done"]

Resolves(o, value) ==
    [o EXCEPT !.outcome = "resolved", !.value = value, !.pc = "done"]

\* this._repositories.<repository>.<method>(...): the request goes out with the
\* token the repository was built with; on [] the property read gives
\* undefined and the call throws a TypeError.
Requests(o, repository, method, arg, pcNext) ==
    IF repositories.full
    THEN [o EXCEPT !.sent = Append(@, [repository |-> repository, method |-> method,
                                        arg |-> arg,
                                        authToken |-> repositories.authToken]),
                   !.pc = pcNext]
    ELSE Rejects(o, "TypeError", "")

\* await this.verifyConnection(): the operation rejects with what it throws,
\* or goes on.
AwaitVerifyConnection(o) ==
    LET thrown == verifyConnection(token, fullToken, now)
    IN  IF thrown # "" THEN Rejects(o, thrown, "")
        ELSE [o EXCEPT !.verified = TRUE]

\* The pagination variables as they are before a call.
PaginationIdle ==
    /\ pc' = "idle"
    /\ params' = [workspaceId |-> 8, modelDetails |-> 0]
    /\ pageSize' = 1
    /\ maxPages' = -1
    /\ offset' = 0
    /\ data' = <<>>
    /\ currentPage' = 0
    /\ totalSize' = 0
    /\ totalPages' = 0
    /\ currentSize' = 0
    /\ promise' = [state |-> "none", value |-> <<>>, reason |-> NoError]
    /\ unhandled' = NoError
    /\ requests' = <<>>
    /\ replies' = <<>>

\* connect({username, password}) and connectWithCertificate(...) up to the
\* await of the auth request.
connectCalled(name) ==
    /\ Settled
    /\ op' = [NewOp(name, 0, "", FALSE) EXCEPT !.authSent = 1, !.pc = "awaitAuth"]
    /\ UNCHANGED <<client, now, life, vars, besideClient>>

connect == connectCalled("connect")

connectWithCertificate == connectCalled("connectWithCertificate")

\* The auth service answers: the rest of the try block, or the catch.
connectReplied ==
    /\ op.pc = "awaitAuth"
    /\ \E reply \in AuthReplies :
        LET authToken == IF op.name = "connect" THEN createAuthToken(reply)
                         ELSE createAuthTokenWithCertificate(reply)
        IN  IF authToken.threw
            THEN /\ op' = Rejects(op, authToken.error.message, authToken.error.cause)
                 /\ UNCHANGED <<client, life>>
            ELSE IF ~authToken.value.hasTokenInfo
            THEN /\ fullToken' = UndefinedToken
                 /\ op' = Rejects(op, "TypeError", "")
                 /\ UNCHANGED <<token, repositories, life>>
            ELSE /\ fullToken' = TokenInfo(authToken.value)
                 /\ token' = authToken.value.tokenValue
                 /\ repositories' = PreparedRepositories(authToken.value.tokenValue)
                 /\ life' = "connected"
                 /\ op' = Resolves(op, <<>>)
    /\ UNCHANGED <<now, vars, besideClient>>

\* Mutant of Forgets: the repositories are dropped, the token is kept.
ForgetsRepositories ==
    /\ repositories' = NoRepositories
    /\ life' = "loggedOut"
    /\ UNCHANGED <<token, fullToken>>

\* The tail of logout: fullToken = null, token = null, _repositories = [].
Forgets ==
    /\ fullToken' = NullToken
    /\ token' = "null"
    /\ repositories' = NoRepositories
    /\ life' = "loggedOut"

\* logout({withRevoke}): with the revoke, up to the await of the auth request;
\* without it, to the end.
logout ==
    /\ Settled
    /\ \E withRevoke \in BOOLEAN :
        LET o == NewOp("logout", 0, "", withRevoke)
        IN  IF withRevoke
            THEN /\ op' = [o EXCEPT !.authSent = 1, !.pc = "awaitRevoke"]
                 /\ UNCHANGED <<client, life>>
            ELSE /\ op' = Resolves(o, <<>>)
                 /\ Forgets
    /\ UNCHANGED <<now, vars, besideClient>>

\* Mutant of logoutReplied: the tail of logout runs whether the revoke failed
\* or not.
logoutRepliedFinally ==
    /\ op.pc = "awaitRevoke"
    /\ \E reply \in {AuthOk(UndefinedBody)} \cup { AuthFail(e) : e \in Errors } :
        LET revoked == AnaplanAuth_logout(reply)
        IN  /\ op' = IF revoked.threw
                     THEN Rejects(op, revoked.error.message, revoked.error.cause)
                     ELSE Resolves(op, <<>>)
            /\ Forgets
    /\ UNCHANGED <<now, vars, besideClient>>

\* The auth service answers the revoke: the catch rethrows, or logout goes on.
logoutReplied ==
    /\ op.pc = "awaitRevoke"
    /\ \E reply \in {AuthOk(UndefinedBody)} \cup { AuthFail(e) : e \in Errors } :
        LET revoked == AnaplanAuth_logout(reply)
        IN  IF revoked.threw
            THEN /\ op' = Rejects(op, revoked.error.message, revoked.error.cause)
                 /\ UNCHANGED <<client, life>>
            ELSE /\ op' = Resolves(op, <<>>)
                 /\ Forgets
    /\ UNCHANGED <<now, vars, besideClient>>

\* new Workspace(this, workspace)
Workspace(w) == Entity(w.id, w.name)

\* getAllWorkspaces() up to the await of listWorkspaces().
ListsWorkspaces(o) ==
    LET v == AwaitVerifyConnection(o)
    IN  IF v.outcome = "rejected" THEN v
        ELSE Requests(v, "workspaces", "listWorkspaces", 0, "awaitList")

getAllWorkspaces ==
    /\ Settled
    /\ op' = ListsWorkspaces(NewOp("getAllWorkspaces", 0, "", FALSE))
    /\ UNCHANGED <<client, now, life, vars, besideClient>>

\* Mutant of LookupById: a name, when given, decides.
LookupByIdUnlessNamed(workspaceId, workspaceName) == workspaceName = ""

\* if (workspaceId) ... else ...
LookupById(workspaceId, workspaceName) == workspaceId # 0

\* getOneWorkspace({workspaceId, workspaceName}) up to its first await of a
\* repository.
getOneWorkspace ==
    /\ Settled
    /\ \E workspaceId \in IdArgs, workspaceName \in NameArgs :
        LET o == NewOp("getOneWorkspace", workspaceId, workspaceName, FALSE)
            v == AwaitVerifyConnection(o)
        IN  op' = IF workspaceId = 0 /\ workspaceName = ""
                  THEN Rejects(o, PleaseProvide, "")
                  ELSE IF v.outcome = "rejected" THEN v
                  ELSE IF LookupById(workspaceId, workspaceName)
                  THEN Requests(v, "workspaces", "getWorkspace", workspaceId,
                                "awaitWorkspace")
                  ELSE ListsWorkspaces(v)
    /\ UNCHANGED <<client, now, life, vars, besideClient>>

\* listWorkspaces() settles: response.data.workspaces, or handleError throws.
workspacesReplied ==
    /\ op.pc = "awaitList"
    /\ \/ \E list \in WorkspaceLists :
            LET workspaces == [i \in 1..Len(list) |-> Workspace(list[i])]
            IN  op' = IF op.name = "getAllWorkspaces" THEN Resolves(op, workspaces)
                      ELSE Resolves(op, <<Find(workspaces, op.lookup)>>)
       \/ \E err \in Errors : op' = Rejects(op, err.name, "")
    /\ UNCHANGED <<client, now, life, vars, besideClient>>

\* getWorkspace(workspaceId) settles: response.data.workspace, which the
\* server names as it likes, or nothing, or handleError throws.
workspaceReplied ==
    /\ op.pc = "awaitWorkspace"
    /\ \/ \E w \in {Entity(op.id, "A"), Entity(op.id, "B"), UndefinedEntity} :
            op' = IF w.defined THEN Resolves(op, <<Workspace(w)>>)
                  ELSE Rejects(op, "TypeError", "")
       \/ \E err \in Errors : op' = Rejects(op, err.name, "")
    /\ UNCHANGED <<client, now, life, vars, besideClient>>

\* Ids of the workspaces whose models the program asks for.
WorkspaceIds == {8, 9}

\* Mutant of AllModelsCall: only the first page is asked for.
AllModelsCallFirstPage(id) ==
    [params |-> [workspaceId |-> id, modelDetails |-> 0],
     pageSize |-> 5000, maxPages |-> 1]

\* What getAllModels of the workspace with this id hands to paginationHandler.
AllModelsCall(id) ==
    [params |-> [workspaceId |-> id, modelDetails |-> 0],
     pageSize |-> 5000, maxPages |-> -1]

\* Workspace.getAllModels() up to the first await inside paginationHandler:
\* verifyConnection, the read of _repositories.models, the call.
StartsPagination(o) ==
    LET thrown == verifyConnection(token, fullToken, now)
    IN  IF thrown # ""
        THEN op' = Rejects(o, thrown, "") /\ UNCHANGED vars
        ELSE IF ~repositories.full
        THEN op' = Rejects([o EXCEPT !.verified = TRUE], "TypeError", "")
             /\ UNCHANGED vars
        ELSE /\ LET call == AllModelsCall(o.workspace)
                IN  CallWith(call.params, call.pageSize, call.maxPages)
             /\ op' = Requests([o EXCEPT !.verified = TRUE], "models",
                               "retrieveModelsForWorkspace", params'.workspaceId,
                               "paginating")

getAllModels ==
    /\ Settled
    /\ \E w \in WorkspaceIds :
        StartsPagination([NewOp("getAllModels", 0, "", FALSE) EXCEPT !.workspace = w])
    /\ UNCHANGED <<client, now, life, besideClient>>

\* Workspace.getOneModel({modelName, modelId}) up to its first await of a
\* repository.
getOneModel ==
    /\ Settled
    /\ \E modelId \in IdArgs, modelName \in NameArgs, w \in WorkspaceIds :
        LET o == [NewOp("getOneModel", modelId, modelName, FALSE) EXCEPT !.workspace = w]
            thrown == verifyConnection(token, fullToken, now)
            v == [o EXCEPT !.verified = TRUE]
        IN  IF thrown # ""
            THEN op' = Rejects(o, thrown, "") /\ UNCHANGED vars
            ELSE IF modelName = "" /\ modelId = 0
            THEN op' = Rejects(v, EitherModel, "") /\ UNCHANGED vars
            ELSE IF modelId # 0
            THEN op' = Requests(v, "models", "getModel", modelId, "awaitModel")
                 /\ UNCHANGED vars
            ELSE StartsPagination(v)
    /\ UNCHANGED <<client, now, life, besideClient>>

\* getModel(...) settles: response.data.model or nothing, or handleError throws.
modelReplied ==
    /\ op.pc = "awaitModel"
    /\ \/ \E found \in {Entity(op.id, "A"), UndefinedEntity} :
            op' = IF found.defined THEN Resolves(op, <<found>>)
                  ELSE Rejects(op, ModelNotFound, "")
       \/ \E err \in Errors : op' = Rejects(op, err.name, "")
    /\ UNCHANGED <<client, now, life, vars, besideClient>>

\* A page request of the operation settles; the loop may send the next one,
\* through the same repository.  op.received keeps the models the server has
\* served to the operation.
PageSettles(settles) ==
    /\ op.pc = "paginating"
    /\ settles
    /\ LET last == replies'[Len(replies')]
           arrays == SelectSeq(last.data.fields, LAMBDA f : f.isArray)
           served == IF last.ok /\ arrays # <<>> THEN arrays[1].items ELSE <<>>
           o == [op EXCEPT !.received = @ \o served]
       IN  op' = IF Len(requests') > Len(requests)
                 THEN [o EXCEPT !.sent =
                          Append(@, [repository |-> "models",
                                     method |-> "retrieveModelsForWorkspace",
                                     arg |-> params.workspaceId,
                                     authToken |-> repositories.authToken])]
                 ELSE o
    /\ UNCHANGED <<client, now, life, besideClient>>

modelsPageReplied ==
    PageSettles(\E env \in ClientEnvelopes(Served(replies)) : Settle(HttpOk(env)))

modelsPageFailed == PageSettles(\E err \in Errors : Settle(HttpFail(err)))

\* paginationHandler resolved: modelData.map(model => new Model(...)), and for
\* getOneModel the find by name.
modelsReturned ==
    /\ op.pc = "paginating"
    /\ pc = "returned"
    /\ LET modelData == promise.value
           models == [i \in 1..Len(modelData) |-> Model(modelData[i])]
           found == Find(models, op.lookup)
       IN  op' = IF \E i \in 1..Len(modelData) : ~modelData[i].defined
                 THEN Rejects(op, "TypeError", "")
                 ELSE IF op.name = "getAllModels" THEN Resolves(op, models)
                 ELSE IF found.defined THEN Resolves(op, <<found>>)
                 ELSE Rejects(op, ModelNotFound, "")
    /\ PaginationIdle
    /\ UNCHANGED <<client, now, life, besideClient>>

\* Time passes.
Tick ==
    /\ now < MaxNow
    /\ now' = now + 1
    /\ UNCHANGED <<client, life, op, vars, besideClient>>

ClientNext ==
    \/ connect
    \/ connectWithCertificate
    \/ connectReplied
    \/ logout
    \/ logoutReplied
    \/ getAllWorkspaces
    \/ getOneWorkspace
    \/ workspacesReplied
    \/ workspaceReplied
    \/ getAllModels
    \/ getOneModel
    \/ modelReplied
    \/ modelsPageReplied
    \/ modelsPageFailed
    \/ modelsReturned
    \/ Tick

ClientSpec == Init /\ [][ClientNext]_<<vars, clientVars>>

\* ------------------------------------------------- vocabulary of the claims

Fetches == Len(requests)

ArrayFields(env) == SelectSeq(env.fields, LAMBDA f : f.isArray)

\* A page as the data model has it: paging metadata and one payload array.
IsPage(env) == env.paging.present /\ Len(ArrayFields(env)) = 1

Payload(env) == ArrayFields(env)[1].items

\* Every reply so far is a page.
AllPages == \A i \in 1..Len(replies) : replies[i].ok /\ IsPage(replies[i].data)

\* currentPageSize reported by reply i.
Reported(i) == replies[i].data.paging.currentPageSize

\* The payloads of the first n replies, one after the other.
RECURSIVE Payloads(_)
Payloads(n) ==
    IF n = 0 THEN <<>> ELSE Payloads(n - 1) \o Payload(replies[n].data)

RECURSIVE SumReported(_)
SumReported(n) == IF n = 0 THEN 0 ELSE SumReported(n - 1) + Reported(n)

Called == pc # "idle"
Fulfilled == promise.state = "fulfilled"
RejectedWith(err) == promise.state = "rejected" /\ promise.reason = err

LastReply == replies[Len(replies)]

\* A malformed page, as the error taxonomy lists it: no paging metadata, no
\* payload array, or a currentPageSize that is not the payload length.
Malformed(env) ==
    \/ ~env.paging.present
    \/ ArrayFields(env) = <<>>
    \/ env.paging.currentPageSize # Len(ArrayFields(env)[1].items)

\* ---------------------------------------------------------------- C1

\* An unbounded call whose replies are pages, all of them full (currentPageSize
\* = pageSize) but the last, which reports currentPageSize = 0.
C1_Pattern ==
    /\ Called /\ maxPages = -1 /\ replies # <<>> /\ AllPages
    /\ \A i \in 1..(Len(replies) - 1) : Reported(i) = pageSize
    /\ Reported(Len(replies)) = 0

\* An unbounded call still waiting, every reply so far a full page.
C1_FullSoFar ==
    /\ pc = "awaiting" /\ maxPages = -1 /\ AllPages
    /\ \A i \in 1..Len(replies) : Reported(i) = pageSize

C1_Done ==
    /\ pc = "returned" /\ Fulfilled
    /\ promise.value = Payloads(Len(replies))
    /\ Fetches = Len(replies)

\* The server left the pattern: a reply that is neither a full page nor the
\* closing empty page.
C1_Deviated == Called /\ ~C1_FullSoFar /\ ~C1_Pattern

\* C1: with maxPages = -1, on a page sequence in which every page but the last
\* reports currentPageSize = pageSize and the last reports 0, the call
\* terminates: it has resolved as soon as the last page is processed, with the
\* payloads of the pages in order, and while the server keeps to the pattern
\* the call does get there.
C1_TerminatesWithConcatenation ==
    /\ [](C1_Pattern => C1_Done)
    /\ (C1_FullSoFar ~> ((C1_Pattern /\ C1_Done) \/ C1_Deviated))

\* Three full pages, then the empty page.
C1_Witness ==
    /\ C1_Pattern /\ C1_Done /\ Len(replies) = 4
    /\ Len(promise.value) = pageSize + pageSize + pageSize

\* ---------------------------------------------------------------- C2

\* C2: when the page fetch fails, on the first page or a later one, the call
\* fails towards its caller with that very failure.
C2_FetchFailureReachesCaller ==
    (replies # <<>> /\ ~LastReply.ok) => RejectedWith(LastReply.error)

\* ---------------------------------------------------------------- C3

\* C3: a call that returns, all of whose pages carry a payload array, returns
\* the payloads of the pages it fetched, in fetch order and in-page order,
\* nothing dropped, repeated, added or moved.
C3_ResultIsConcatenation ==
    (Fulfilled /\ AllPages) => promise.value = Payloads(Len(replies))

\* Pages [1,2], [3,4], [] give [1,2,3,4].
C3_Witness ==
    /\ Fulfilled /\ AllPages /\ Len(replies) = 3
    /\ Payload(replies[1].data) = <<Item(1), Item(2)>>
    /\ Payload(replies[2].data) = <<Item(3), Item(4)>>
    /\ Payload(replies[3].data) = <<>>
    /\ promise.value = <<Item(1), Item(2), Item(3), Item(4)>>

\* ---------------------------------------------------------------- C4

\* C4: a page envelope without meta.paging makes the call fail with a
\* ProtocolError.
C4_NoPagingIsProtocolError ==
    (replies # <<>> /\ LastReply.ok /\ ~LastReply.data.paging.present)
        => RejectedWith(ProtocolError)

\* ---------------------------------------------------------------- C5

\* C5: with maxPages = k > 0 a call issues at most k page fetches.
C5_AtMostMaxPagesFetches == (Called /\ maxPages > 0) => Fetches <= maxPages

\* maxPages = 2, two non-empty pages were served: the call stopped there.
C5_Witness ==
    /\ maxPages = 2 /\ pc = "returned" /\ Fetches = 2
    /\ Reported(2) > 0

\* ---------------------------------------------------------------- C6

StoppedAfter(i) == Fetches = i

\* Each reply processed as a page (the executor did not throw on it).
ProcessedPages ==
    { i \in 1..Len(replies) : replies[i].ok /\ replies[i].data.paging.present }

C8_Scenario ==
    /\ pageSize = 2 /\ maxPages = -1 /\ Len(replies) = 4 /\ AllPages
    /\ \A i \in 1..4 : Reported(i) = Len(Payload(replies[i].data))
    /\ <<Reported(1), Reported(2), Reported(3), Reported(4)>> = <<2, 2, 1, 0>>

C9_NoResultAfterFailure ==
    (\E i \in 1..Len(replies) : ~replies[i].ok \/ Malformed(replies[i].data))
        => ~Fulfilled

\* ---------------------------------------------------------------- C10

\* C10: a page envelope with meta.paging and no top-level array makes the call
\* fail with a ProtocolError instead of returning a result.
C10_NoArrayIsProtocolError ==
    (/\ replies # <<>> /\ LastReply.ok /\ LastReply.data.paging.present
     /\ ArrayFields(LastReply.data) = <<>>)
        => RejectedWith(ProtocolError)

\* ---------------------------------------------------------------- C11

\* C11: a page whose currentPageSize is not the length of its payload (such as
\* a positive size with an empty payload) makes the call fail with a
\* ProtocolError instead of going on with the loop.
C11_MismatchIsProtocolError ==
    (/\ replies # <<>> /\ LastReply.ok /\ LastReply.data.paging.present
     /\ ArrayFields(LastReply.data) # <<>>
     /\ Reported(Len(replies)) # Len(ArrayFields(LastReply.data)[1].items))
        => RejectedWith(ProtocolError)

\* ---------------------------------------------------------------- C12

\* C12: every request carries limit = pageSize and the offset the aggregator
\* is at, whatever limit and offset the caller's params hold, and every other
\* key of the caller's params with its value; nothing else.
C12_RequestsCarryLimitAndOffset ==
    /\ \A i \in 1..Fetches :
          /\ DOMAIN requests[i] = DOMAIN params \cup {"limit", "offset"}
          /\ requests[i].limit = pageSize
          /\ \A k \in DOMAIN params \ {"limit", "offset"} : requests[i][k] = params[k]
    /\ pc = "awaiting" => requests[Fetches].offset = offset

\* The caller passed limit and offset of its own; a second request is out.
C12_Witness ==
    /\ "limit" \in DOMAIN params /\ params.limit # pageSize /\ params.offset # offset
    /\ pc = "awaiting" /\ Fetches = 2 /\ offset > 0

\* ---------------------------------------------------------------- C13

\* The first page has an empty payload and reports currentPageSize 0.
C13_FirstPageEmpty ==
    /\ replies # <<>> /\ replies[1].ok /\ IsPage(replies[1].data)
    /\ Payload(replies[1].data) = <<>> /\ Reported(1) = 0

\* C13: when the first page is empty the call returns the empty sequence after
\* exactly one fetch, for every maxPages.
C13_EmptyFirstPageGivesEmptyResult ==
    C13_FirstPageEmpty =>
        /\ pc = "returned" /\ Fulfilled /\ promise.value = <<>>
        /\ Fetches = 1 /\ Len(replies) = 1

\* An empty first page on a call that allowed two pages.
C13_Witness == C13_FirstPageEmpty /\ maxPages = 2 /\ Fulfilled

\* ---------------------------------------------------------------- C14

\* C14: a failed page fetch is the last fetch of its call: no request follows
\* it, so none is repeated.
C14_NoFetchAfterFailure ==
    \A i \in 1..Len(replies) :
        ~replies[i].ok => (Fetches = i /\ Len(replies) = i /\ pc = "threw")

\* The third fetch failed.
C14_Witness == Len(replies) = 3 /\ ~replies[3].ok /\ Fetches = 3

\* ---------------------------------------------------------------- C15

\* C15: at most one page request is outstanding, and a request is out only
\* after every earlier page was received and processed: the pages counted and
\* appended, the offset advanced to the one the request carries.
C15_OneFetchAtATime ==
    /\ Fetches <= Len(replies) + 1
    /\ pc = "awaiting" =>
          /\ Fetches = Len(replies) + 1
          /\ currentPage = Len(replies)
          /\ offset = SumReported(Len(replies))
          /\ requests[Fetches].offset = offset
          /\ AllPages => data = Payloads(Len(replies))
    /\ pc \in {"returned", "threw"} => Fetches = Len(replies)

\* The third request is out, two pages are in.
C15_Witness ==
    /\ pc = "awaiting" /\ Fetches = 3 /\ Len(replies) = 2 /\ Len(data) = 3

\* ---------------------------------------------------------------- C17

\* Names a payload field may have.
FieldNames == {"files", "tasks", "items", "models"}

\* The envelope with its array fields named name.
Renamed(env, name) ==
    [env EXCEPT !.fields =
        [i \in 1..Len(env.fields) |->
            IF env.fields[i].isArray THEN [env.fields[i] EXCEPT !.key = name]
            ELSE env.fields[i]]]

\* The envelope without its top-level fields that are not arrays.
ArraysOnly(env) == [env EXCEPT !.fields = ArrayFields(env)]

RenamedReplies(name) ==
    [i \in 1..Len(replies) |-> [replies[i] EXCEPT !.data = Renamed(replies[i].data, name)]]

ArraysOnlyReplies ==
    [i \in 1..Len(replies) |-> [replies[i] EXCEPT !.data = ArraysOnly(replies[i].data)]]

\* Every envelope received has exactly one top-level array.
OneArrayEach ==
    \A i \in 1..Len(replies) : replies[i].ok => Len(ArrayFields(replies[i].data)) = 1

\* The call run again from its arguments on the replies rs.
Rerun(rs) == Replay(Started(params, pageSize, maxPages), rs)

SameOutcome(cs) ==
    /\ cs.requests = requests
    /\ cs.promise = promise
    /\ cs.pc = pc

\* The model's actions and the replay of the call on its replies agree.
ReplayAgrees == Called => Rerun(replies) = Current

\* C17: with one array per envelope, the requests sent and the result are the
\* same whatever the array field is called, and the same with the fields that
\* are not arrays (meta, status) taken out of the envelopes.
C17_PayloadKeyIndependence ==
    (Called /\ OneArrayEach) =>
        /\ ReplayAgrees
        /\ \A name \in FieldNames : SameOutcome(Rerun(RenamedReplies(name)))
        /\ SameOutcome(Rerun(ArraysOnlyReplies))

\* A call that returned items it got under two different field names.
C17_Witness ==
    /\ OneArrayEach /\ Fulfilled /\ Len(replies) = 3 /\ Len(promise.value) = 2
    /\ Payload(replies[1].data) # <<>> /\ Payload(replies[2].data) # <<>>
    /\ ArrayFields(replies[1].data)[1].key = "items"
    /\ ArrayFields(replies[2].data)[1].key = "models"

\* Call c on its own: the same arguments, fed the replies call c received.
Alone(c) ==
    Replay(Started(calls[c].params, calls[c].pageSize, calls[c].maxPages),
           calls[c].replies)

\* C16: two calls running side by side, their page fetches interleaved in any
\* order, share no mutable state: the requests of each call (and so their
\* offsets and their number), where it stands and the promise it returned are
\* those of the same call fed the same replies on its own.
C16_CallsAreIndependent ==
    \A c \in CallIds :
        calls[c].pc # "idle" =>
            /\ calls[c].requests = Alone(c).requests
            /\ Len(calls[c].requests) = Len(Alone(c).requests)
            /\ calls[c].promise = Alone(c).promise
            /\ calls[c].pc = Alone(c).pc
            /\ calls[c].unhandled = Alone(c).unhandled

\* Both calls are under way at once, each past its first page, at different
\* offsets.
C16_Witness ==
    /\ \A c \in CallIds : calls[c].pc = "awaiting" /\ Len(calls[c].replies) = 1
    /\ frames[Frame(1)].offset # frames[Frame(2)].offset
    /\ C16_CallsAreIndependent

\* C20: on a successful (2xx) reply each of createAuthToken,
\* createAuthTokenWithCertificate, getAuthTokenDetails and refreshAuthToken
\* resolves to exactly the body the auth service returned, and logout resolves
\* with no value.
C20_AuthMethodsReturnTheBody ==
    authCall.reply.ok =>
        /\ ~authCall.outcome.threw
        /\ authCall.method \in {"createAuthToken", "createAuthTokenWithCertificate",
                                "getAuthTokenDetails", "refreshAuthToken"}
               => authCall.outcome.value = authCall.reply.body
        /\ authCall.method = "logout" => ~authCall.outcome.value.defined

\* createAuthToken was answered with a body that carries a token.
C20_Witness ==
    /\ authCall.method = "createAuthToken"
    /\ authCall.reply.ok
    /\ authCall.reply.body.hasTokenInfo
    /\ authCall.outcome.value.tokenValue \in TokenValues

\* The data operations of the client and of the workspaces it hands out.
DataOps == {"getAllWorkspaces", "getOneWorkspace", "getAllModels", "getOneModel"}

\* The client as it was when the operation was called: it never connected, it
\* has logged out, or it holds a token whose expiresAt is below now + 10.
Unusable(at) ==
    \/ at.life = "new"
    \/ at.life = "loggedOut"
    \/ /\ Truthy(at.token)
       /\ at.fullToken.kind = "object"
       /\ at.fullToken.expiresAt < at.now + 10

\* The operation sent no request it had not passed verifyConnection for, and
\* called on an unusable client it failed, with one of errors, before any request.
FailsBeforeAnyRequest(errors) ==
    op.name \in DataOps =>
        /\ op.sent # <<>> => op.verified
        /\ Unusable(op.at) =>
            /\ op.outcome = "rejected"
            /\ op.error.message \in errors
            /\ op.sent = <<>>

\* C18 as stated: no data operation sends a repository request unless
\* verifyConnection succeeded in it, and on a client that never connected, has
\* logged out or holds an expired token it fails with 'Not connected' or
\* 'Token expired' before any request is sent.
C18_FailsNotConnectedOrExpired == FailsBeforeAnyRequest({NotConnected, TokenExpired})

\* C18, amended: no data operation sends a repository request unless
\* verifyConnection succeeded in it, and on a client that never connected, has
\* logged out or holds an expired token it fails before any request is sent,
\* with 'Not connected' or 'Token expired', or, for getOneWorkspace called
\* without workspaceId and workspaceName, with 'Please provide a workspaceId
\* or workspaceName.'.
C18_NoRequestUnlessVerified ==
    /\ FailsBeforeAnyRequest({NotConnected, TokenExpired, PleaseProvide})
    /\ op.error.message = PleaseProvide =>
           op.name = "getOneWorkspace" /\ op.id = 0 /\ op.lookup = ""

\* getAllModels called on a client whose token has just come within the margin
\* of its expiry: 'Token expired', and nothing was sent.
C18_Witness ==
    /\ op.name = "getAllModels"
    /\ op.at.life = "connected"
    /\ op.at.fullToken.expiresAt = op.at.now + 10 - 1
    /\ op.outcome = "rejected" /\ op.error.message = TokenExpired
    /\ op.sent = <<>>

\* C19: getOneWorkspace called with neither workspaceId nor workspaceName
\* throws without checking the connection or sending a request; called with
\* both it fetches the workspace by its id and never looks the name up.
C19_GetOneWorkspaceArguments ==
    op.name = "getOneWorkspace" =>
        /\ (op.id = 0 /\ op.lookup = "") =>
               /\ op.outcome = "rejected"
               /\ op.error.message = PleaseProvide
               /\ ~op.verified
               /\ op.sent = <<>>
        /\ (op.id # 0 /\ op.lookup # "") =>
               /\ \A i \in 1..Len(op.sent) :
                      /\ op.sent[i].method = "getWorkspace"
                      /\ op.sent[i].arg = op.id
               /\ op.verified => Len(op.sent) = 1
               /\ op.outcome = "resolved" =>
                      op.value = <<Entity(op.id, op.value[1].name)>>

\* Called with an id and a name, it returned the workspace of that id, which
\* has another name.
C19_Witness ==
    /\ op.name = "getOneWorkspace"
    /\ op.id # 0 /\ op.lookup = "A"
    /\ op.outcome = "resolved"
    /\ op.value[1].name = "B"
    /\ Len(op.sent) = 1 /\ op.sent[1].method = "getWorkspace"

\* totalSize values a run may see in place of the ones it saw.
OtherTotalSizes == {0, 1, 3, 5, 100}

WithTotalSize(env, ts) ==
    IF env.paging.present THEN [env EXCEPT !.paging.totalSize = ts] ELSE env

\* The replies with totalSize set to ts in reply k, or in all for k = 0.
RepliesWithTotalSize(k, ts) ==
    [i \in 1..Len(replies) |->
        IF k = 0 \/ i = k
        THEN [replies[i] EXCEPT !.data = WithTotalSize(replies[i].data, ts)]
        ELSE replies[i]]

\* C21: totalSize does not influence an aggregation: a run whose envelopes
\* differ from this one's only in meta.paging.totalSize, on the first page, on
\* a later page or on all, sends the same requests and ends the same way; the
\* loop goes on although the accumulated count has reached totalSize.
C21_TotalSizeIsIgnored ==
    Called =>
        /\ ReplayAgrees
        /\ \A k \in 0..Len(replies), ts \in OtherTotalSizes :
               SameOutcome(Rerun(RepliesWithTotalSize(k, ts)))
        /\ (AllPages /\ Len(replies) > 0 /\ Len(data) >= totalSize) =>
               (pc = "awaiting" <=>
                    LoopCondition(currentSize, maxPages, currentPage))

\* Five items of a total of five are in, and the next page has been asked for.
C21_Witness ==
    /\ AllPages /\ pc = "awaiting"
    /\ totalSize = 5 /\ Len(data) = 5
    /\ Len(requests) = Len(replies) + 1
    /\ requests[Len(requests)].offset = 5

\* Every reply is a page whose currentPageSize is the length of its payload.
SizesMatch ==
    /\ AllPages
    /\ \A i \in 1..Len(replies) : Reported(i) = Len(Payload(replies[i].data))

EveryReplyHasAnArray ==
    \A i \in 1..Len(replies) :
        /\ replies[i].ok
        /\ replies[i].data.paging.present
        /\ Len(ArrayFields(replies[i].data)) >= 1

\* The items of the arrays of reply i that come after its first array.
ItemsOfOtherArrays(i) ==
    LET arrays == ArrayFields(replies[i].data)
    IN  UNION { { arrays[j].items[k] : k \in 1..Len(arrays[j].items) } :
                j \in 2..Len(arrays) }

\* C23: when an envelope has more than one top-level array, the items of the
\* first one in field order are appended and none of the items of the others.
C23_FirstArrayOnly ==
    (Called /\ EveryReplyHasAnArray) =>
        /\ data = Payloads(Len(replies))
        /\ \A i \in 1..Len(replies), k \in 1..Len(data) :
               data[k] \notin ItemsOfOtherArrays(i)

\* An envelope with arrays models = [1] and others = [2], then an empty page:
\* the call returns [1].
C23_Witness ==
    /\ Fulfilled /\ Len(replies) = 2
    /\ Len(ArrayFields(replies[1].data)) = 2
    /\ ArrayFields(replies[1].data)[1].items = <<Item(1)>>
    /\ ItemsOfOtherArrays(1) = {Item(2)}
    /\ promise.value = <<Item(1)>>

\* C24: getAllModels goes through the aggregator with pageSize 5000 and
\* maxPages -1 against retrieveModelsForWorkspace, every request carries the
\* id of the workspace it was called on, and it returns one Model for each
\* item the pages brought, in their order, whatever the number of pages.
C24_GetAllModelsReturnsEveryPage ==
    op.name = "getAllModels" =>
        /\ op.pc = "paginating" =>
               /\ pageSize = 5000 /\ maxPages = -1
               /\ Len(op.sent) = Len(requests)
               /\ \A i \in 1..Len(requests) :
                      /\ requests[i].workspaceId = op.workspace
                      /\ requests[i].limit = 5000
                      /\ op.sent[i].repository = "models"
                      /\ op.sent[i].method = "retrieveModelsForWorkspace"
                      /\ op.sent[i].arg = op.workspace
               /\ pc = "awaiting" => requests[Len(requests)].offset = Len(op.received)
        /\ op.outcome = "resolved" =>
               /\ op.value = [i \in 1..Len(op.received) |-> Model(op.received[i])]
               /\ \A i \in 1..Len(op.sent) : op.sent[i].arg = op.workspace

\* getAllModels of workspace 9 returned the models of two pages.
C24_Witness ==
    /\ op.name = "getAllModels" /\ op.workspace = 9
    /\ op.outcome = "resolved"
    /\ Len(op.sent) = 3
    /\ op.value = <<Model(Item(1)), Model(Item(2))>>

\* C25: after logout has completed successfully the client holds no token, no
\* fullToken and no repositories, and until a connect succeeds verifyConnection
\* fails with 'Not connected' at any time, so no data operation gets past it;
\* called with withRevoke = false, logout completes without a request to the
\* auth service.
C25_LogoutForgetsTheConnection ==
    /\ (op.name = "logout" /\ op.outcome = "resolved") =>
           /\ life = "loggedOut"
           /\ token = "null" /\ fullToken = NullToken
           /\ repositories = NoRepositories
    /\ life = "loggedOut" =>
           /\ ~Truthy(token)
           /\ fullToken.kind # "object"
           /\ ~repositories.full
           /\ \A t \in 0..MaxNow : verifyConnection(token, fullToken, t) = NotConnected
    /\ (op.name \in DataOps /\ op.at.life = "loggedOut") =>
           /\ ~op.verified
           /\ op.sent = <<>>
           /\ op.outcome = "rejected"
           /\ op.error.message \in {NotConnected, PleaseProvide}
    /\ (op.name = "logout" /\ ~op.withRevoke) =>
           /\ op.outcome = "resolved"
           /\ op.authSent = 0

\* A connected client with an unexpired token logged out without the revoke:
\* nothing went to the auth service and verifyConnection now fails.
C25_Witness ==
    /\ op.name = "logout" /\ ~op.withRevoke
    /\ op.outcome = "resolved"
    /\ op.at.life = "connected"
    /\ Truthy(op.at.token) /\ op.at.repositories.full
    /\ verifyConnection(op.at.token, op.at.fullToken, op.at.now) = ""
    /\ op.authSent = 0
    /\ verifyConnection(token, fullToken, now) = NotConnected

\* ---------------------------------------------------------------- C26

\* Every reply so far was processed as a page and reported a size above 0.
NeverEmpty ==
    \A i \in 1..Len(replies) : i \in ProcessedPages /\ Reported(i) > 0

\* C26: with maxPages = -1 a call returns only after a page that reported a
\* currentPageSize not above 0; as long as every page reports a size above 0
\* the call has not completed, one more request is out for every page
\* received and each request asks for a greater offset than the one before.
C26_UnlimitedCallNeedsAnEmptyPage ==
    (Called /\ maxPages = -1) =>
        /\ Fulfilled =>
               /\ Len(replies) \in ProcessedPages
               /\ Reported(Len(replies)) <= 0
               /\ \A i \in 1..(Len(replies) - 1) : Reported(i) > 0
        /\ NeverEmpty =>
               /\ pc = "awaiting" /\ promise.state = "pending"
               /\ Fetches = Len(replies) + 1
               /\ \A i \in 1..Len(replies) :
                      requests[i + 1].offset > requests[i].offset

\* Three pages, none of them empty: the fourth request is out, further on.
C26_Witness ==
    /\ maxPages = -1
    /\ Len(replies) = 3 /\ NeverEmpty
    /\ Fetches = 4 /\ pc = "awaiting"
    /\ requests[4].offset >= 3

\* ---------------------------------------------------------------- C27

Connects == {"connect", "connectWithCertificate"}

\* C27: whatever connects and logouts have succeeded or failed, a truthy token
\* of the client comes with the full set of repositories, all built with that
\* very token; after a successful connect none built with an earlier token is
\* left, and the requests of a data operation carry the client's token.
C27_RepositoriesCarryTheToken ==
    /\ Truthy(token) => repositories.full /\ repositories.authToken = token
    /\ (op.name \in Connects /\ op.outcome = "resolved") =>
           /\ Truthy(token)
           /\ token = fullToken.tokenValue
    /\ op.name \in DataOps =>
           \A i \in 1..Len(op.sent) : op.sent[i].authToken = token

\* A client connected with one token connected again and got another: its
\* repositories were rebuilt with the new one.
C27_Witness ==
    /\ op.name \in Connects /\ op.outcome = "resolved"
    /\ op.at.token = "T1" /\ op.at.repositories = PreparedRepositories("T1")
    /\ token = "T2" /\ repositories = PreparedRepositories("T2")

\* ---------------------------------------------------------------- C28

\* C28: a connect or connectWithCertificate that rejects, because the
\* authentication request failed or because the reply has no tokenInfo, leaves
\* the token, the fullToken and the repositories of the client exactly as
\* they were when it was called.
C28_FailedConnectIsAtomic ==
    (op.name \in Connects /\ op.outcome = "rejected") =>
        /\ token = op.at.token
        /\ fullToken = op.at.fullToken
        /\ repositories = op.at.repositories

\* ---------------------------------------------------------------- C29

\* C29: a logout that rejects is one called with withRevoke = true whose
\* revoke request failed; it rejects with the error of the failed revoke, and
\* token, fullToken and repositories are as they were when it was called, so
\* verifyConnection succeeds as long as the token it kept has not expired.
C29_FailedRevokeKeepsTheConnection ==
    (op.name = "logout" /\ op.outcome = "rejected") =>
        /\ op.withRevoke /\ op.authSent = 1
        /\ op.error.message = "Failed to logout"
        /\ op.error.cause \in { e.name : e \in Errors }
        /\ token = op.at.token
        /\ fullToken = op.at.fullToken
        /\ repositories = op.at.repositories
        /\ life = op.at.life
        /\ verifyConnection(op.at.token, op.at.fullToken, now) = "" =>
               verifyConnection(token, fullToken, now) = ""

\* A connected client whose revoke failed: it still holds its token and its
\* repositories, and verifyConnection succeeds.
C29_Witness ==
    /\ op.name = "logout" /\ op.withRevoke
    /\ op.outcome = "rejected"
    /\ op.at.life = "connected"
    /\ Truthy(token) /\ repositories.full /\ fullToken.kind = "object"
    /\ verifyConnection(token, fullToken, now) = ""

\* ---------------------------------------------------------------- C30

\* The branches of handleError the errors of the replies so far went through.
BranchesTaken ==
    { handleError(replies[i].error).logged : i \in { j \in 1..Len(replies) : ~replies[j].ok } }

\* C30: a repository method whose request failed has not returned (neither a
\* body nor undefined) but thrown, and thrown the very error the request
\* failed with, whichever of the three branches of handleError that error
\* takes: an error with a response, one with a request only, any other.
C30_HandleErrorRethrows ==
    (Called /\ Len(replies) > 0 /\ ~LastReply.ok) =>
        /\ retrieveModelsForWorkspace(LastReply).threw
        /\ retrieveModelsForWorkspace(LastReply).error = LastReply.error
        /\ LastReply.error \in Errors
        /\ pc = "threw"
        /\ unhandled = LastReply.error
        /\ promise.state # "fulfilled"
        /\ BranchesTaken \in
               { {"API response error:"}, {"No response received:"}, {"Error:"} }

\* A request failed before it was sent (no response, no request): the branch
\* that logs 'Error:' was taken and the method threw that error.
C30_Witness ==
    /\ Len(replies) = 2 /\ replies[1].ok /\ ~replies[2].ok
    /\ ~replies[2].error.hasResponse /\ ~replies[2].error.hasRequest
    /\ BranchesTaken = {"Error:"}
    /\ pc = "threw" /\ unhandled = replies[2].error

====
